---- MODULE Spec2Model ----
(***************************************************************************)
(* Portfolio Valuator (simoespt/Portfolio): the page component of          *)
(* src/unnamed/part_000, its pure helpers and its two asynchronous         *)
(* handlers, calculate and computeMonthlyDrops.                            *)
(*                                                                         *)
(* Numbers.  A JavaScript number is modelled as a pair <<n, d>>:           *)
(*   d > 0   the finite value n/d in lowest terms (exact; IEEE rounding    *)
(*           and the sign of zero are not modelled),                       *)
(*   <<1,0>> +Infinity, <<-1,0>> -Infinity, <<0,0>> NaN,                   *)
(*   <<0,-1>> null / undefined.                                            *)
(* Dates.  "YYYY-MM-DD" and "YYYY-MM" are fixed-width digit strings; the   *)
(* code compares them as strings, which orders them as the integers        *)
(* YYYYMMDD and YYYYMM.  A date is modelled as that integer, the empty     *)
(* string as 0, and slice(0, 7) / slice(0, 4) as division by 100.          *)
(***************************************************************************)
EXTENDS Integers, Sequences, FiniteSets, TLC

VARIABLES
    rows,              \* useState<Row[]>
    useEur,            \* "show EUR" checkbox
    fx,                \* remembered USD per EUR, or Null
    calc,              \* [loading, results]
    error,             \* user-visible message, "" when none
    dropThresholdPct,
    dropsLoading,
    monthlySeries,     \* sequence of [month, valueUSD, mom]
    bigDrops,
    page, pageSize, showAll,
    stooq,             \* the provider's daily CSV rows per symbol
    calcRun,           \* the calculate call in flight (its closure and position)
    dropsRun,          \* the computeMonthlyDrops call in flight
    probe,             \* arguments of a direct call of a pure helper
    out,               \* result of that call
    rendered           \* rows as of the last render: what addRow's closure reads

vars == <<rows, useEur, fx, calc, error, dropThresholdPct, dropsLoading,
          monthlySeries, bigDrops, page, pageSize, showAll, stooq,
          calcRun, dropsRun, probe, out, rendered>>

uiVars == <<rows, useEur, fx, calc, error, dropThresholdPct, dropsLoading,
            monthlySeries, bigDrops, page, pageSize, showAll>>

-----------------------------------------------------------------------------
(* Bounds of the model *)

MaxClose == 3      \* CSV price cells are "N/D" and "0" .. "MaxClose"

-----------------------------------------------------------------------------
(* JavaScript numbers *)

NaN    == <<0, 0>>
PosInf == <<1, 0>>
NegInf == <<-1, 0>>
Null   == <<0, -1>>
Num(i) == <<i, 1>>

Abs(i) == IF i < 0 THEN -i ELSE i
Sgn(i) == IF i < 0 THEN -1 ELSE IF i > 0 THEN 1 ELSE 0

RECURSIVE GCD(_, _)
GCD(a, b) == IF b = 0 THEN a ELSE GCD(b, a % b)

\* n/d in lowest terms with a positive denominator (d # 0)
Norm(n, d) ==
    LET g == GCD(Abs(n), Abs(d))
        s == Sgn(d)
    IN  IF n = 0 THEN <<0, 1>> ELSE <<(s * n) \div g, Abs(d) \div g>>

IsNull(x)   == x[2] < 0
IsNaN(x)    == x = NaN
IsFinite(x) == x[2] > 0                      \* Number.isFinite
IsInf(x)    == x = PosInf \/ x = NegInf
IsZero(x)   == x[2] > 0 /\ x[1] = 0
Truthy(x)   == ~IsNull(x) /\ ~IsNaN(x) /\ ~IsZero(x)   \* "x ? a : b", "!x"

\* a * b
Mul(a, b) ==
    IF IsNaN(a) \/ IsNaN(b) THEN NaN
    ELSE IF IsInf(a) \/ IsInf(b)
         THEN IF IsZero(a) \/ IsZero(b) THEN NaN
              ELSE <<Sgn(a[1]) * Sgn(b[1]), 0>>
         ELSE Norm(a[1] * b[1], a[2] * b[2])

\* a / b
Div(a, b) ==
    IF IsNaN(a) \/ IsNaN(b) THEN NaN
    ELSE IF IsInf(a) THEN (IF IsInf(b) THEN NaN
                           ELSE <<a[1] * (IF b[1] < 0 THEN -1 ELSE 1), 0>>)
    ELSE IF IsInf(b) THEN <<0, 1>>
    ELSE IF IsZero(b) THEN (IF IsZero(a) THEN NaN ELSE <<Sgn(a[1]), 0>>)
    ELSE Norm(a[1] * b[2], a[2] * b[1])

\* a + b
Add(a, b) ==
    IF IsNaN(a) \/ IsNaN(b) THEN NaN
    ELSE IF IsInf(a) THEN (IF IsInf(b) /\ a # b THEN NaN ELSE a)
    ELSE IF IsInf(b) THEN b
    ELSE Norm(a[1] * b[2] + b[1] * a[2], a[2] * b[2])

\* a - b
Sub(a, b) == Add(a, Mul(b, Num(-1)))

\* a < b, false when either is NaN
Lt(a, b) ==
    /\ ~IsNaN(a) /\ ~IsNaN(b) /\ a # b
    /\ \/ a = NegInf
       \/ b = PosInf
       \/ IsFinite(a) /\ IsFinite(b) /\ a[1] * b[2] < b[1] * a[2]
Gt(a, b) == Lt(b, a)
Le(a, b) == ~IsNaN(a) /\ ~IsNaN(b) /\ (a = b \/ Lt(a, b))
Ge(a, b) == Le(b, a)

-----------------------------------------------------------------------------
(* CSV cells and their conversions *)

NullCell == "<undefined>"      \* a missing property (row?.Close of no row)
Digits   == {ToString(n) : n \in 0..MaxClose}
Cells    == {"N/D"} \cup Digits

\* the decimal numeral s as a number
Numeral(s) == Num(CHOOSE n \in 0..MaxClose : ToString(n) = s)

\* parseFloat(s): the leading numeral of s, NaN when there is none
parseFloat(s) == IF s \in Digits THEN Numeral(s) ELSE NaN

\* asNum(v)
asNum(v) ==
    IF v = NullCell THEN NaN
    ELSE IF v = "" \/ v = "N/D" \/ v = "NAN" THEN NaN
    ELSE LET n == IF v \in Digits THEN Numeral(v) ELSE NaN     \* Number(s)
         IN  IF IsFinite(n) THEN n ELSE NaN

-----------------------------------------------------------------------------
(* Dates *)

MonthOf(ymd) == ymd \div 100           \* Date.slice(0, 7)
YearOf(ym)   == ym \div 100            \* month.slice(0, 4)

\* variant: the difference of the two months read as the numbers YYYYMM
monthsBetweenDecimal(a, b) == b - a

\* monthsBetween(a, b), a and b "YYYY-MM"
monthsBetween(a, b) ==
    LET ya == a \div 100
        ma == a % 100
        yb == b \div 100
        mb == b % 100
    IN  (yb - ya) * 12 + (mb - ma)

-----------------------------------------------------------------------------
(* Price History Normalizer *)

\* Array.prototype.find / findIndex over the outcomes hit[i] of the callback:
\* the index of the first element it accepts, 0 if none
FirstIndex(hit) ==
    IF \E i \in 1..Len(hit) : hit[i]
    THEN CHOOSE i \in 1..Len(hit) : hit[i] /\ \A j \in 1..(i - 1) : ~hit[j]
    ELSE 0

ErrHist  == "Hist fetch failed"
ErrNoDay == "No trading day on/after"

\* variant: the first record strictly after the target
fetchHistoricalCloseStrictlyAfter(ok, csv, ymd) ==
    LET k == FirstIndex([i \in 1..Len(csv) |-> csv[i].Date > ymd])
    IN  IF ~ok THEN [err |-> ErrHist]
        ELSE IF k = 0 THEN [err |-> ErrNoDay]
        ELSE [err |-> "", dateUsed |-> csv[k].Date,
              close |-> parseFloat(csv[k].Close), allRows |-> csv]

\* fetchHistoricalCloseOnOrAfter with the response (ok, csv) of the provider
fetchHistoricalCloseOnOrAfter(ok, csv, ymd) ==
    LET k == FirstIndex([i \in 1..Len(csv) |-> csv[i].Date >= ymd])
    IN  IF ~ok THEN [err |-> ErrHist]
        ELSE IF k = 0 THEN [err |-> ErrNoDay]
        ELSE [err |-> "", dateUsed |-> csv[k].Date,
              close |-> parseFloat(csv[k].Close), allRows |-> csv]

\* Map.set(m, r) on the insertion-ordered map kept as a sequence of [month, row]
MapSet(byMonth, m, r) ==
    IF \E i \in 1..Len(byMonth) : byMonth[i].month = m
    THEN [i \in 1..Len(byMonth) |->
            IF byMonth[i].month = m THEN [month |-> m, row |-> r] ELSE byMonth[i]]
    ELSE Append(byMonth, [month |-> m, row |-> r])

RECURSIVE ByMonth(_, _, _)
ByMonth(csv, startDateYmd, byMonth) ==
    IF csv = <<>> THEN byMonth
    ELSE LET r == Head(csv)
         IN  IF startDateYmd # 0 /\ r.Date < startDateYmd
             THEN ByMonth(Tail(csv), startDateYmd, byMonth)
             ELSE ByMonth(Tail(csv), startDateYmd, MapSet(byMonth, MonthOf(r.Date), r))

\* variant: the first record of a month is kept
RECURSIVE ByMonthFirst(_, _, _)
ByMonthFirst(csv, startDateYmd, byMonth) ==
    IF csv = <<>> THEN byMonth
    ELSE LET r == Head(csv)
             seen == \E i \in 1..Len(byMonth) : byMonth[i].month = MonthOf(r.Date)
         IN  IF (startDateYmd # 0 /\ r.Date < startDateYmd) \/ seen
             THEN ByMonthFirst(Tail(csv), startDateYmd, byMonth)
             ELSE ByMonthFirst(Tail(csv), startDateYmd,
                               Append(byMonth, [month |-> MonthOf(r.Date), row |-> r]))

groupByMonthStart(csv, startDateYmd) ==
    LET byMonth == ByMonthFirst(csv, startDateYmd, <<>>)
    IN  [i \in 1..Len(byMonth) |->
            [month |-> byMonth[i].month, close |-> parseFloat(byMonth[i].row.Close)]]

\* groupByMonthEnd(rows, startDateYmd)
groupByMonthEnd(csv, startDateYmd) ==
    LET byMonth == ByMonth(csv, startDateYmd, <<>>)
    IN  [i \in 1..Len(byMonth) |->
            [month |-> byMonth[i].month, close |-> parseFloat(byMonth[i].row.Close)]]

-----------------------------------------------------------------------------
(* Tickers and the provider *)

Tickers == {"", "aaa", "bbb.us"}       \* what the user types
Symbols == {"AAA.US", "BBB.US"}        \* the symbols the provider knows

\* (t || "").trim().toUpperCase()
ToUpperCase(t) ==
    CASE t = "aaa" -> "AAA"
      [] t = "bbb.us" -> "BBB.US"
      [] OTHER -> t

Includes(sym, ch) == ch = "." /\ sym \in {"BBB.US"}

normalizeTicker(t) ==
    LET sym == ToUpperCase(t)
    IN  IF Includes(sym, ".") THEN sym ELSE sym \o ".US"

\* the daily CSV of a symbol; an unknown symbol has no rows
CsvOf(symbol) == IF symbol \in DOMAIN stooq.hist THEN stooq.hist[symbol] ELSE <<>>

ErrQuote   == "Quote fetch failed"
ErrFx      == "FX fetch failed"
ErrType    == "TypeError"              \* rows[0] of an empty CSV
ErrMissing == "Preenche todos os campos."

\* fetchLatestQuotes(symbols) with the response ok flag; the map has one entry
\* per row of the provider's answer
fetchLatestQuotes(ok, symbols) ==
    IF ~ok THEN [err |-> ErrQuote]
    ELSE [err |-> "",
          map |-> [s \in {x \in symbols : x \in DOMAIN stooq.quote} |->
                      [close |-> asNum(stooq.quote[s])]]]

\* fetchEURUSD() with the response ok flag
fetchEURUSD(ok) ==
    IF ~ok THEN [err |-> ErrFx]
    ELSE IF stooq.eurusd = NullCell THEN [err |-> ErrType]
    ELSE [err |-> "", close |-> parseFloat(stooq.eurusd)]

-----------------------------------------------------------------------------
(* Position Valuator: calculate *)

MissingField(r) == r.ticker = "" \/ ~Truthy(r.amount) \/ r.date = 0

\* variant: without a rate the EUR amount is not a number
AmountUSDNoFallback(r, eurusdNow) ==
    IF r.currency = "EUR"
    THEN (IF Truthy(eurusdNow) THEN Mul(r.amount, eurusdNow) ELSE NaN)
    ELSE r.amount

\* amountUSD of a row under the rate eurusdNow (possibly Null)
AmountUSD(r, eurusdNow) ==
    IF r.currency = "EUR"
    THEN (IF Truthy(eurusdNow) THEN Mul(r.amount, eurusdNow) ELSE r.amount)
    ELSE r.amount

\* shares = amountUSD / hist.close
Shares(amountUSD, close) == Div(amountUSD, close)

\* variant: the fallback reads the first row of the history
CurPriceFirstRow(quoteMap, symbol, allRows) ==
    LET last == IF symbol \in DOMAIN quoteMap THEN quoteMap[symbol].close ELSE Null
        firstRowClose == IF allRows = <<>> THEN NullCell ELSE allRows[1].Close
    IN  IF ~IsFinite(last) THEN asNum(firstRowClose) ELSE last

\* the live quote close when finite, else asNum of the last row's Close
CurPrice(quoteMap, symbol, allRows) ==
    LET last == IF symbol \in DOMAIN quoteMap THEN quoteMap[symbol].close ELSE Null
        lastRowClose == IF allRows = <<>> THEN NullCell
                        ELSE allRows[Len(allRows)].Close
    IN  IF ~IsFinite(last) THEN asNum(lastRowClose) ELSE last

\* eurusd ?? (useEur ? fx : null)
EurUsdNow(eurusd, useEurC, fxC) ==
    IF ~IsNull(eurusd) THEN eurusd ELSE IF useEurC THEN fxC ELSE Null

\* one iteration of the loop of calculate over row r; okHist is the ok flag of
\* the history response
CalcRow(r, run, okHist) ==
    LET symbol == normalizeTicker(r.ticker)
        hist == fetchHistoricalCloseOnOrAfter(okHist, CsvOf(symbol), r.date)
    IN  IF MissingField(r) THEN [err |-> ErrMissing]
        ELSE IF hist.err # "" THEN [err |-> hist.err]
        ELSE LET amountUSD == AmountUSD(r, EurUsdNow(run.eurusd, run.useEur, run.fx))
                 shares == Shares(amountUSD, hist.close)
                 curPrice == CurPrice(run.quoteMap, symbol, hist.allRows)
             IN  [err |-> "",
                  res |-> [id |-> r.id, symbol |-> symbol,
                           purchaseDateUsed |-> hist.dateUsed,
                           purchaseClose |-> hist.close,
                           amountInvested |-> amountUSD,
                           amountOriginal |-> r.amount,
                           currency |-> r.currency,
                           shares |-> shares,
                           latestPrice |-> curPrice,
                           currentValueUSD |-> Mul(shares, curPrice)]]

\* for (const r of rows) { ... results.push(...) }; bad is the index of the row
\* whose history request fails (Len(rows) + 1: none does)
RECURSIVE CalcLoop(_, _, _, _)
CalcLoop(run, i, bad, results) ==
    IF i > Len(run.rows) THEN [err |-> "", results |-> results]
    ELSE LET one == CalcRow(run.rows[i], run, i # bad)
         IN  IF one.err # "" THEN [err |-> one.err, results |-> <<>>]
             ELSE CalcLoop(run, i + 1, bad, Append(results, one.res))

NeedFx(run) == run.useEur \/ \E i \in 1..Len(run.rows) : run.rows[i].currency = "EUR"

\* no call in flight; the fields are the closure of the call (rows, useEur, fx),
\* its locals (quoteMap, eurusd) and the message of the exception it caught
IdleCalc == [pc |-> "idle", rows |-> <<>>, useEur |-> TRUE, fx |-> Null,
             quoteMap |-> <<>>, eurusd |-> Null, err |-> ""]

\* calculate, up to its first await
CalcStart ==
    /\ ~calc.loading                     \* the button is disabled while loading
    /\ error' = ""
    /\ calc' = [loading |-> TRUE, results |-> <<>>]
    /\ calcRun' = [IdleCalc EXCEPT !.pc = "fetching", !.rows = rows,
                                     !.useEur = useEur, !.fx = fx]
    /\ UNCHANGED <<rows, useEur, fx, dropThresholdPct, dropsLoading, monthlySeries,
                   bigDrops, page, pageSize, showAll, stooq, dropsRun, probe, out, rendered>>

\* variant: the catch block leaves the loading flag set
CalcCatchKeepsLoading(msg) ==
    /\ calc' = [loading |-> TRUE, results |-> <<>>]
    /\ error' = msg

\* the statements of the catch block
CalcCatch(msg) ==
    /\ calc' = [loading |-> FALSE, results |-> <<>>]
    /\ error' = msg

\* Promise.all([fetchLatestQuotes, fetchEURUSD]) settles
CalcFetched ==
    /\ calcRun.pc = "fetching"
    /\ \E okQ \in BOOLEAN, okFx \in BOOLEAN :
         LET symbols == {normalizeTicker(calcRun.rows[i].ticker) : i \in 1..Len(calcRun.rows)}
             q == fetchLatestQuotes(okQ, symbols)
             f == IF NeedFx(calcRun) THEN fetchEURUSD(okFx) ELSE [err |-> "", close |-> Null]
         IN  IF q.err # "" \/ f.err # ""
             THEN /\ \E msg \in ({q.err, f.err} \ {""}) :
                       /\ CalcCatch(msg)
                       /\ calcRun' = [calcRun EXCEPT !.pc = "idle", !.err = msg]
                  /\ fx' = fx
             ELSE /\ fx' = IF calcRun.useEur /\ Truthy(f.close) THEN f.close ELSE fx
                  /\ calcRun' = [calcRun EXCEPT !.pc = "looping", !.quoteMap = q.map,
                                                !.eurusd = f.close]
                  /\ UNCHANGED <<calc, error>>
    /\ UNCHANGED <<rows, useEur, dropThresholdPct, dropsLoading, monthlySeries,
                   bigDrops, page, pageSize, showAll, stooq, dropsRun, probe, out, rendered>>

\* the loop over the rows and the final setCalc, or the catch block
CalcFinish ==
    /\ calcRun.pc = "looping"
    /\ \E bad \in 1..(Len(calcRun.rows) + 1) :
         LET done == CalcLoop(calcRun, 1, bad, <<>>)
         IN  /\ IF done.err # ""
                THEN CalcCatch(done.err)
                ELSE /\ calc' = [loading |-> FALSE, results |-> done.results]
                     /\ error' = error
             /\ calcRun' = [calcRun EXCEPT !.pc = "idle", !.err = done.err]
    /\ UNCHANGED <<rows, useEur, fx, dropThresholdPct, dropsLoading, monthlySeries,
                   bigDrops, page, pageSize, showAll, stooq, dropsRun, probe, out, rendered>>

-----------------------------------------------------------------------------
(* The totals of the valuation: totals *)

\* xs.reduce((s, x) => s + x, 0)
RECURSIVE Reduce(_, _)
Reduce(xs, s) == IF xs = <<>> THEN s ELSE Reduce(Tail(xs), Add(s, Head(xs)))

\* variant: the EUR total sums the converted amounts of the EUR positions
InvestedTotalsConverted(results) ==
    [investedUSD |-> Reduce([i \in 1..Len(results) |-> results[i].amountInvested], Num(0)),
     curUSD |-> Reduce([i \in 1..Len(results) |-> results[i].currentValueUSD], Num(0)),
     investedOriginalEUR |->
       Reduce([i \in 1..Len(results) |->
                 IF results[i].currency = "EUR" THEN results[i].amountInvested ELSE Num(0)],
              Num(0)),
     investedOriginalUSD |->
       Reduce([i \in 1..Len(results) |->
                 IF results[i].currency = "USD" THEN results[i].amountOriginal ELSE Num(0)],
              Num(0))]

\* the fields of totals computed from the results alone
InvestedTotals(results) ==
    [investedUSD |-> Reduce([i \in 1..Len(results) |-> results[i].amountInvested], Num(0)),
     curUSD |-> Reduce([i \in 1..Len(results) |-> results[i].currentValueUSD], Num(0)),
     investedOriginalEUR |->
       Reduce([i \in 1..Len(results) |->
                 IF results[i].currency = "EUR" THEN results[i].amountOriginal ELSE Num(0)],
              Num(0)),
     investedOriginalUSD |->
       Reduce([i \in 1..Len(results) |->
                 IF results[i].currency = "USD" THEN results[i].amountOriginal ELSE Num(0)],
              Num(0))]

\* useMemo(() => ..., [calc.results, useEur, fx])
totals ==
    LET t == InvestedTotals(calc.results)
        plUSD == Sub(t.curUSD, t.investedUSD)
    IN  [investedUSD |-> t.investedUSD,
         investedOriginalEUR |-> t.investedOriginalEUR,
         investedOriginalUSD |-> t.investedOriginalUSD,
         curUSD |-> t.curUSD,
         curEUR |-> IF useEur /\ Truthy(fx) THEN Div(t.curUSD, fx) ELSE Null,
         plUSD |-> plUSD,
         plPct |-> IF Gt(t.investedUSD, Num(0))
                   THEN Mul(Div(plUSD, t.investedUSD), Num(100)) ELSE Num(0)]

-----------------------------------------------------------------------------
(* Portfolio Monthly Aggregator and Drop Detector: computeMonthlyDrops *)

\* one iteration of the loop of computeMonthlyDrops over row r
DropsRow(r, run, okHist) ==
    LET symbol == normalizeTicker(r.ticker)
        hist == fetchHistoricalCloseOnOrAfter(okHist, CsvOf(symbol), r.date)
    IN  IF MissingField(r) THEN [err |-> ErrMissing]
        ELSE IF hist.err # "" THEN [err |-> hist.err]
        ELSE [err |-> "",
              res |-> [symbol |-> symbol,
                       shares |-> Shares(AmountUSD(r, run.fx), hist.close),
                       monthSeries |-> groupByMonthEnd(hist.allRows, r.date)]]

RECURSIVE DropsLoop(_, _, _, _)
DropsLoop(run, i, bad, perSymbol) ==
    IF i > Len(run.rows) THEN [err |-> "", perSymbol |-> perSymbol]
    ELSE LET one == DropsRow(run.rows[i], run, i # bad)
         IN  IF one.err # "" THEN [err |-> one.err, perSymbol |-> <<>>]
             ELSE DropsLoop(run, i + 1, bad, Append(perSymbol, one.res))

\* Array.from(set).sort() of "YYYY-MM" strings
RECURSIVE SortedSeq(_)
SortedSeq(S) ==
    IF S = {} THEN <<>>
    ELSE LET m == CHOOSE x \in S : \A y \in S : x <= y
         IN  <<m>> \o SortedSeq(S \ {m})

\* Array.prototype.filter over the outcomes keep[i] of the callback
RECURSIVE Filter(_, _)
Filter(s, keep) ==
    IF s = <<>> THEN <<>>
    ELSE (IF Head(keep) THEN <<Head(s)>> ELSE <<>>) \o Filter(Tail(s), Tail(keep))

\* let v = 0; for (const s of perSymbol) { rec = find(month === m); if (rec) v += ... }
RECURSIVE MonthValue(_, _, _, _)
MonthValue(perSymbol, m, i, v) ==
    IF i > Len(perSymbol) THEN v
    ELSE LET s == perSymbol[i]
             k == FirstIndex([j \in 1..Len(s.monthSeries) |-> s.monthSeries[j].month = m])
         IN  MonthValue(perSymbol, m, i + 1,
                        IF k # 0 THEN Add(v, Mul(s.shares, s.monthSeries[k].close)) ELSE v)

AllMonths(perSymbol) ==
    UNION {{perSymbol[i].monthSeries[j].month : j \in 1..Len(perSymbol[i].monthSeries)} :
             i \in 1..Len(perSymbol)}

\* variant: the months whose sum is zero are kept
PortfolioSeriesKeepZero(perSymbol) ==
    LET monthsSorted == SortedSeq(AllMonths(perSymbol))
        mapped == [i \in 1..Len(monthsSorted) |->
                      [month |-> monthsSorted[i],
                       valueUSD |-> MonthValue(perSymbol, monthsSorted[i], 1, Num(0))]]
    IN  Filter(mapped, [i \in 1..Len(mapped) |-> Ge(mapped[i].valueUSD, Num(0))])

\* monthsSorted.map(...).filter((p) => p.valueUSD > 0)
PortfolioSeries(perSymbol) ==
    LET monthsSorted == SortedSeq(AllMonths(perSymbol))
        mapped == [i \in 1..Len(monthsSorted) |->
                      [month |-> monthsSorted[i],
                       valueUSD |-> MonthValue(perSymbol, monthsSorted[i], 1, Num(0))]]
    IN  Filter(mapped, [i \in 1..Len(mapped) |-> Gt(mapped[i].valueUSD, Num(0))])

\* variant: the change of every point is taken against the first point
WithMoMAgainstFirst(portfolioSeries) ==
    [i \in 1..Len(portfolioSeries) |->
        LET p == portfolioSeries[i]
        IN  IF i = 1 THEN [month |-> p.month, valueUSD |-> p.valueUSD, mom |-> Null]
            ELSE LET prev == portfolioSeries[1].valueUSD
                 IN  [month |-> p.month, valueUSD |-> p.valueUSD,
                      mom |-> IF Gt(prev, Num(0))
                              THEN Sub(Div(p.valueUSD, prev), Num(1)) ELSE Null]]

\* portfolioSeries.map((p, i) => ...) adding mom
WithMoM(portfolioSeries) ==
    [i \in 1..Len(portfolioSeries) |->
        LET p == portfolioSeries[i]
        IN  IF i = 1 THEN [month |-> p.month, valueUSD |-> p.valueUSD, mom |-> Null]
            ELSE LET prev == portfolioSeries[i - 1].valueUSD
                 IN  [month |-> p.month, valueUSD |-> p.valueUSD,
                      mom |-> IF Gt(prev, Num(0))
                              THEN Sub(Div(p.valueUSD, prev), Num(1)) ELSE Null]]

\* variant: the threshold is taken as a positive fraction
ThresholdUnsigned(pct) == Div(Num(Abs(pct)), Num(100))

\* -Math.abs(dropThresholdPct) / 100
Threshold(pct) == Div(Num(-Abs(pct)), Num(100))

\* variant: a change equal to the threshold is not a drop
DropsStrict(withMoM, pct) ==
    Filter(withMoM, [i \in 1..Len(withMoM) |->
                        ~IsNull(withMoM[i].mom) /\ Lt(withMoM[i].mom, Threshold(pct))])

\* withMoM.filter((p) => p.mom != null && p.mom <= threshold)
Drops(withMoM, pct) ==
    Filter(withMoM, [i \in 1..Len(withMoM) |->
                        ~IsNull(withMoM[i].mom) /\ Le(withMoM[i].mom, Threshold(pct))])

\* no call in flight; the fields are the closure of the call (rows, fx,
\* dropThresholdPct), its local perSymbol and the message of the exception it caught
IdleDrops == [pc |-> "idle", rows |-> <<>>, fx |-> Null, dropThresholdPct |-> 15,
              perSymbol |-> <<>>, err |-> ""]

\* computeMonthlyDrops, up to its first await
DropsStart ==
    /\ ~dropsLoading                     \* the button is disabled while loading
    /\ error' = ""
    /\ dropsLoading' = TRUE
    /\ dropsRun' = [IdleDrops EXCEPT !.pc = "fetching", !.rows = rows, !.fx = fx,
                                     !.dropThresholdPct = dropThresholdPct]
    /\ UNCHANGED <<rows, useEur, fx, calc, dropThresholdPct, monthlySeries,
                   bigDrops, page, pageSize, showAll, stooq, calcRun, probe, out, rendered>>

\* variant: the effect leaves the page where it is
ResetShowAllOnly ==
    /\ page' = page
    /\ showAll' = FALSE

\* useEffect(() => { setPage(1); setShowAll(false) }, [bigDrops, dropThresholdPct])
ResetPage ==
    /\ page' = 1
    /\ showAll' = FALSE

\* the loop over the rows, the aggregation and the three setters, or the catch
\* block; then finally
DropsFinish ==
    /\ dropsRun.pc = "fetching"
    /\ \E bad \in 1..(Len(dropsRun.rows) + 1) :
         LET done == DropsLoop(dropsRun, 1, bad, <<>>)
             withMoM == WithMoM(PortfolioSeries(done.perSymbol))
         IN  /\ IF done.err # ""
                THEN /\ error' = done.err
                     /\ monthlySeries' = <<>>
                     /\ bigDrops' = <<>>
                ELSE /\ monthlySeries' = withMoM
                     /\ bigDrops' = Drops(withMoM, dropsRun.dropThresholdPct)
                     /\ error' = error
             /\ dropsRun' = [dropsRun EXCEPT !.pc = "idle", !.perSymbol = done.perSymbol,
                                              !.err = done.err]
    /\ dropsLoading' = FALSE
    /\ ResetPage
    /\ UNCHANGED <<rows, useEur, fx, calc, dropThresholdPct, pageSize, stooq,
                   calcRun, probe, out, rendered>>

-----------------------------------------------------------------------------
(* The form *)

MaxRows == 4       \* addRow is offered while the list is shorter than this
MaxId == 4         \* and while the id it would give is at most this

Currencies == {"USD", "EUR"}

\* handleChange(id, key, val)
handleChange(id, key, val) ==
    /\ rows' = [i \in 1..Len(rows) |->
                  IF rows[i].id = id THEN [rows[i] EXCEPT ![key] = val] ELSE rows[i]]
    /\ UNCHANGED <<useEur, fx, calc, error, dropThresholdPct, dropsLoading,
                   monthlySeries, bigDrops, page, pageSize, showAll, stooq,
                   calcRun, dropsRun, probe, out, rendered>>

\* rows.at(-1)?.id ?? 0
LastId(rs) == IF rs = <<>> THEN 0 ELSE rs[Len(rs)].id

\* nextId is computed from the rows of the render that created this addRow; the
\* new row is appended to the current list (setRows((old) => [...old, row]))
addRow ==
    /\ Len(rows) < MaxRows /\ LastId(rendered) < MaxId
    /\ rows' = Append(rows, [id |-> LastId(rendered) + 1, ticker |-> "",
                             amount |-> Num(1000), currency |-> "EUR", date |-> 20150102])
    /\ UNCHANGED <<useEur, fx, calc, error, dropThresholdPct, dropsLoading,
                   monthlySeries, bigDrops, page, pageSize, showAll, stooq,
                   calcRun, dropsRun, probe, out, rendered>>

removeRow(id) ==
    /\ \E i \in 1..Len(rows) : rows[i].id = id
    /\ rows' = Filter(rows, [i \in 1..Len(rows) |-> rows[i].id # id])
    /\ UNCHANGED <<useEur, fx, calc, error, dropThresholdPct, dropsLoading,
                   monthlySeries, bigDrops, page, pageSize, showAll, stooq,
                   calcRun, dropsRun, probe, out, rendered>>

\* the page is rendered again after rows has changed: the handlers are re-created
Render ==
    /\ rendered # rows
    /\ rendered' = rows
    /\ UNCHANGED <<rows, useEur, fx, calc, error, dropThresholdPct, dropsLoading,
                   monthlySeries, bigDrops, page, pageSize, showAll, stooq,
                   calcRun, dropsRun, probe, out>>

\* the "show EUR" checkbox
setUseEur(checked) ==
    /\ useEur' = checked
    /\ UNCHANGED <<rows, fx, calc, error, dropThresholdPct, dropsLoading,
                   monthlySeries, bigDrops, page, pageSize, showAll, stooq,
                   calcRun, dropsRun, probe, out, rendered>>

\* the threshold input: Math.max(1, Math.min(100, Number(value)))
Clamp(n) == IF n < 1 THEN 1 ELSE IF n > 100 THEN 100 ELSE n

setDropThresholdPct(value) ==
    /\ dropThresholdPct' = Clamp(value)
    /\ IF dropThresholdPct' # dropThresholdPct
       THEN ResetPage ELSE UNCHANGED <<page, showAll>>
    /\ UNCHANGED <<rows, useEur, fx, calc, error, dropsLoading, monthlySeries,
                   bigDrops, pageSize, stooq, calcRun, dropsRun, probe, out, rendered>>

-----------------------------------------------------------------------------
(* The pages of the drop table *)

\* the options of the page-size select
PageSizes == {10, 20, 50, 100}

\* Math.max(1, Math.ceil(bigDrops.length / pageSize))
totalPages ==
    LET pages == (Len(bigDrops) + pageSize - 1) \div pageSize
    IN  IF pages < 1 THEN 1 ELSE pages

\* the page-size select, disabled while everything is shown:
\* setPageSize(Number(e.target.value)); setPage(1)
setPageSize(n) ==
    /\ ~showAll
    /\ pageSize' = n
    /\ page' = 1
    /\ UNCHANGED <<rows, useEur, fx, calc, error, dropThresholdPct, dropsLoading,
                   monthlySeries, bigDrops, showAll, stooq, calcRun, dropsRun,
                   probe, out, rendered>>

\* the show-all button: setShowAll((v) => !v)
setShowAll ==
    /\ showAll' = ~showAll
    /\ UNCHANGED <<rows, useEur, fx, calc, error, dropThresholdPct, dropsLoading,
                   monthlySeries, bigDrops, page, pageSize, stooq, calcRun, dropsRun,
                   probe, out, rendered>>

\* the Anterior button, disabled when showAll || page <= 1:
\* setPage((p) => Math.max(1, p - 1))
Anterior ==
    /\ ~(showAll \/ page <= 1)
    /\ page' = IF page - 1 < 1 THEN 1 ELSE page - 1
    /\ UNCHANGED <<rows, useEur, fx, calc, error, dropThresholdPct, dropsLoading,
                   monthlySeries, bigDrops, pageSize, showAll, stooq, calcRun,
                   dropsRun, probe, out, rendered>>

\* the Seguinte button, disabled when showAll || page >= totalPages:
\* setPage((p) => Math.min(Math.max(1, Math.ceil(bigDrops.length / pageSize)), p + 1))
Seguinte ==
    /\ ~(showAll \/ page >= totalPages)
    /\ page' = IF page + 1 > totalPages THEN totalPages ELSE page + 1
    /\ UNCHANGED <<rows, useEur, fx, calc, error, dropThresholdPct, dropsLoading,
                   monthlySeries, bigDrops, pageSize, showAll, stooq, calcRun,
                   dropsRun, probe, out, rendered>>

-----------------------------------------------------------------------------
(* Crisis Window Analyzer: eventPerformances *)

NoMonth == 0       \* a month that is null

MARKET_EVENTS ==
    <<[id |-> "dotcom", startMonth |-> 200003, endMonth |-> 200210],
      [id |-> "gfc", startMonth |-> 200710, endMonth |-> 200903],
      [id |-> "covid", startMonth |-> 202002, endMonth |-> 202004],
      [id |-> "inflation2022", startMonth |-> 202111, endMonth |-> 202210]>>

\* variant: the drawdown of every point is taken against the first in-range value
RECURSIVE DrawdownScanFromStart(_, _, _)
DrawdownScanFromStart(inRange, i, st) ==
    IF i > Len(inRange) THEN st
    ELSE LET p == inRange[i]
             up == IF Gt(p.valueUSD, st.peak)
                   THEN [st EXCEPT !.peak = p.valueUSD, !.peakMonth = p.month]
                   ELSE st
             dd == Sub(Div(p.valueUSD, inRange[1].valueUSD), Num(1))
             nx == IF Gt(up.peak, Num(0)) /\ Lt(dd, up.worstDD)
                   THEN [up EXCEPT !.worstDD = dd, !.troughValue = p.valueUSD,
                                   !.troughMonth = p.month]
                   ELSE up
         IN  DrawdownScanFromStart(inRange, i + 1, nx)

\* for (const p of inRange) { ... }: the drawdown scan from point i on, with the
\* running state st = [peak, peakMonth, troughValue, troughMonth, worstDD]
RECURSIVE DrawdownScan(_, _, _)
DrawdownScan(inRange, i, st) ==
    IF i > Len(inRange) THEN st
    ELSE LET p == inRange[i]
             up == IF Gt(p.valueUSD, st.peak)
                   THEN [st EXCEPT !.peak = p.valueUSD, !.peakMonth = p.month]
                   ELSE st
             dd == Sub(Div(p.valueUSD, up.peak), Num(1))
             nx == IF Gt(up.peak, Num(0)) /\ Lt(dd, up.worstDD)
                   THEN [up EXCEPT !.worstDD = dd, !.troughValue = p.valueUSD,
                                   !.troughMonth = p.month]
                   ELSE up
         IN  DrawdownScan(inRange, i + 1, nx)

\* the recovery search in the full series after the trough, against peak
RecoveryMonth(series, troughMonth, peak) ==
    LET idxTrough == FirstIndex([i \in 1..Len(series) |-> series[i].month = troughMonth])
        k == FirstIndex([i \in 1..Len(series) |->
                            i > idxTrough /\ Ge(series[i].valueUSD, peak)])
    IN  IF idxTrough >= 1 /\ k # 0 THEN series[k].month ELSE NoMonth

\* variant: every point of the series counts as in range
InRangeWholeSeries(ev, series) == series

\* monthlySeries.filter((p) => p.month >= ev.startMonth && p.month <= ev.endMonth)
InRange(ev, series) ==
    Filter(series, [i \in 1..Len(series) |->
                      series[i].month >= ev.startMonth /\ series[i].month <= ev.endMonth])

\* the body of MARKET_EVENTS.map((ev) => ...)
EventPerformance(ev, series) ==
    LET inRange == InRange(ev, series)
    IN  IF Len(inRange) = 0
        THEN [id |-> ev.id, startMonth |-> ev.startMonth, endMonth |-> ev.endMonth,
              startValue |-> Null, endValue |-> Null, absChange |-> Null,
              pctChange |-> Null, maxDrawdown |-> Null, troughMonth |-> NoMonth,
              recoveryMonth |-> NoMonth, monthsToRecoveryFromStart |-> Null,
              monthsToRecoveryFromTrough |-> Null]
        ELSE LET startValue == inRange[1].valueUSD
                 endValue == inRange[Len(inRange)].valueUSD
                 absChange == Sub(endValue, startValue)
                 st == DrawdownScan(inRange, 1,
                         [peak |-> inRange[1].valueUSD, peakMonth |-> inRange[1].month,
                          troughValue |-> inRange[1].valueUSD,
                          troughMonth |-> inRange[1].month, worstDD |-> Num(0)])
                 recoveryMonth == RecoveryMonth(series, st.troughMonth, st.peak)
             IN  [id |-> ev.id, startMonth |-> ev.startMonth, endMonth |-> ev.endMonth,
                  startValue |-> startValue, endValue |-> endValue,
                  absChange |-> absChange,
                  pctChange |-> IF Gt(startValue, Num(0)) THEN Div(absChange, startValue)
                                ELSE Null,
                  maxDrawdown |-> st.worstDD, troughMonth |-> st.troughMonth,
                  recoveryMonth |-> recoveryMonth,
                  monthsToRecoveryFromStart |->
                    IF recoveryMonth # NoMonth
                    THEN Num(monthsBetween(ev.startMonth, recoveryMonth)) ELSE Null,
                  monthsToRecoveryFromTrough |->
                    IF recoveryMonth # NoMonth
                    THEN Num(monthsBetween(st.troughMonth, recoveryMonth)) ELSE Null]

\* useMemo(() => ..., [monthlySeries])
eventPerformances ==
    IF Len(monthlySeries) = 0 THEN <<>>
    ELSE [e \in 1..Len(MARKET_EVENTS) |-> EventPerformance(MARKET_EVENTS[e], monthlySeries)]

-----------------------------------------------------------------------------
(* Annual Extremes Analyzer: yearExtremes *)

\* rate ? p.valueUSD / rate : otherwise
EurOf(rate, valueUSD, otherwise) ==
    IF Truthy(rate) THEN Div(valueUSD, rate) ELSE otherwise

\* map.set(year, { ... }) of a year seen for the first time
FirstOfYear(year, p, rate) ==
    [year |-> year, minUSD |-> p.valueUSD, maxUSD |-> p.valueUSD,
     minMonth |-> p.month, maxMonth |-> p.month,
     minEUR |-> EurOf(rate, p.valueUSD, Null), maxEUR |-> EurOf(rate, p.valueUSD, Null)]

\* variant: an entry is never updated after the first point of its year
RECURSIVE YearScanKeepFirst(_, _, _, _)
YearScanKeepFirst(series, i, rate, map) ==
    IF i > Len(series) THEN map
    ELSE LET p == series[i]
             year == YearOf(p.month)
             k == FirstIndex([j \in 1..Len(map) |-> map[j].year = year])
         IN  IF k = 0
             THEN YearScanKeepFirst(series, i + 1, rate, Append(map, FirstOfYear(year, p, rate)))
             ELSE YearScanKeepFirst(series, i + 1, rate, map)

\* variant: a value equal to the minimum or the maximum overwrites the month
RECURSIVE YearScanTiesOverwrite(_, _, _, _)
YearScanTiesOverwrite(series, i, rate, map) ==
    IF i > Len(series) THEN map
    ELSE LET p == series[i]
             year == YearOf(p.month)
             k == FirstIndex([j \in 1..Len(map) |-> map[j].year = year])
         IN  IF k = 0
             THEN YearScanTiesOverwrite(series, i + 1, rate,
                                        Append(map, FirstOfYear(year, p, rate)))
             ELSE LET current == map[k]
                      lo == IF Le(p.valueUSD, current.minUSD)
                            THEN [current EXCEPT !.minUSD = p.valueUSD, !.minMonth = p.month,
                                    !.minEUR = EurOf(rate, p.valueUSD, current.minEUR)]
                            ELSE current
                      hi == IF Ge(p.valueUSD, lo.maxUSD)
                            THEN [lo EXCEPT !.maxUSD = p.valueUSD, !.maxMonth = p.month,
                                    !.maxEUR = EurOf(rate, p.valueUSD, lo.maxEUR)]
                            ELSE lo
                  IN  YearScanTiesOverwrite(series, i + 1, rate, [map EXCEPT ![k] = hi])

\* for (const p of monthlySeries) { ... }: the loop from point i on; map is the
\* Map as the sequence of its values in insertion order
RECURSIVE YearScan(_, _, _, _)
YearScan(series, i, rate, map) ==
    IF i > Len(series) THEN map
    ELSE LET p == series[i]
             year == YearOf(p.month)
             k == FirstIndex([j \in 1..Len(map) |-> map[j].year = year])
         IN  IF k = 0
             THEN YearScan(series, i + 1, rate, Append(map, FirstOfYear(year, p, rate)))
             ELSE LET current == map[k]
                      lo == IF Lt(p.valueUSD, current.minUSD)
                            THEN [current EXCEPT !.minUSD = p.valueUSD, !.minMonth = p.month,
                                    !.minEUR = EurOf(rate, p.valueUSD, current.minEUR)]
                            ELSE current
                      hi == IF Gt(p.valueUSD, lo.maxUSD)
                            THEN [lo EXCEPT !.maxUSD = p.valueUSD, !.maxMonth = p.month,
                                    !.maxEUR = EurOf(rate, p.valueUSD, lo.maxEUR)]
                            ELSE lo
                  IN  YearScan(series, i + 1, rate, [map EXCEPT ![k] = hi])

\* Array.from(map.values()).sort((a, b) => a.year.localeCompare(b.year))
SortByYear(entries) ==
    LET years == SortedSeq({entries[j].year : j \in 1..Len(entries)})
    IN  [n \in 1..Len(years) |->
           entries[FirstIndex([j \in 1..Len(entries) |-> entries[j].year = years[n]])]]

\* useMemo(() => ..., [monthlySeries, fx])
yearExtremes ==
    IF Len(monthlySeries) = 0 THEN <<>>
    ELSE SortByYear(YearScan(monthlySeries, 1, fx, <<>>))

-----------------------------------------------------------------------------
(* Initial states.  The useState initial values are those of the code, except    *)
(* rows: each specification starts from row lists that addRow, removeRow and     *)
(* handleChange reach from the three rows the page is constructed with, over the *)
(* tickers of the model.  The provider's data (stooq) is fixed during a          *)
(* behaviour; whether a request succeeds is decided at each request.             *)

NoProbe   == [op |-> "none"]

\* the useState initial values other than rows
InitPage ==
    /\ useEur = TRUE
    /\ fx = Null
    /\ calc = [loading |-> FALSE, results |-> <<>>]
    /\ error = ""
    /\ dropThresholdPct = 15
    /\ dropsLoading = FALSE
    /\ monthlySeries = <<>>
    /\ bigDrops = <<>>
    /\ page = 1
    /\ pageSize = 20
    /\ showAll = FALSE
    /\ calcRun = IdleCalc
    /\ dropsRun = IdleDrops

\* the ascending daily histories with dates in D and Close cells in C
HistoriesOver(D, C) ==
    UNION {LET ds == SortedSeq(S)
           IN  {[i \in 1..Len(ds) |-> [Date |-> ds[i], Close |-> f[ds[i]]]] : f \in [S -> C]} :
             S \in SUBSET D}

NoStooq == [hist |-> <<>>, quote |-> <<>>, eurusd |-> NullCell]

-----------------------------------------------------------------------------
(* Direct calls of the Price History Normalizer *)

ProbeDates   == {20200110, 20200120, 20200210, 20200220}
ProbeTargets == {0, 20200101, 20200110, 20200115, 20200120, 20200205, 20200220, 20200301}

InitNormalizer ==
    /\ InitPage
    /\ rows = <<>>
    /\ stooq = NoStooq
    /\ probe \in [ok : BOOLEAN, csv : HistoriesOver(ProbeDates, Cells), ymd : ProbeTargets]
    /\ out = NoProbe
    /\ rendered = rows

CallCloseOnOrAfter ==
    /\ out = NoProbe
    /\ out' = [op |-> "closeOnOrAfter",
               res |-> fetchHistoricalCloseOnOrAfter(probe.ok, probe.csv, probe.ymd)]
    /\ UNCHANGED <<uiVars, stooq, calcRun, dropsRun, probe, rendered>>

CallGroupByMonthEnd ==
    /\ out = NoProbe
    /\ out' = [op |-> "groupByMonthEnd", res |-> groupByMonthEnd(probe.csv, probe.ymd)]
    /\ UNCHANGED <<uiVars, stooq, calcRun, dropsRun, probe, rendered>>

NextNormalizer == CallCloseOnOrAfter \/ CallGroupByMonthEnd

SpecNormalizer == InitNormalizer /\ [][NextNormalizer]_vars

\* C5: on an ascending history the purchase lookup returns the first record whose
\* date is >= the target, with dateUsed and close both taken from that record, and
\* it fails with the no-trading-day error exactly when the response is ok and no
\* record has date >= target.
C5_CloseOnOrAfter ==
    out.op = "closeOnOrAfter" =>
      LET csv == probe.csv
          ymd == probe.ymd
          none == \A i \in 1..Len(csv) : csv[i].Date < ymd
      IN  /\ (out.res.err = ErrNoDay) <=> (probe.ok /\ none)
          /\ (probe.ok /\ ~none) =>
               /\ out.res.err = ""
               /\ \E k \in 1..Len(csv) :
                    /\ csv[k].Date >= ymd
                    /\ \A j \in 1..(k - 1) : csv[j].Date < ymd
                    /\ out.res.dateUsed = csv[k].Date
                    /\ out.res.close = parseFloat(csv[k].Close)

\* the target is a non-trading day between two records and the later one is used
C5_Witness ==
    /\ out.op = "closeOnOrAfter"
    /\ out.res.err = ""
    /\ out.res.dateUsed > probe.ymd
    /\ \E i \in 1..Len(probe.csv) : probe.csv[i].Date < probe.ymd
    /\ IsFinite(out.res.close)

\* C9: the per-asset monthly series has exactly one entry for each year-month that
\* has a record with date >= sinceDate, whose close is that of the last such record
\* of the month; records before sinceDate never contribute.
C9_GroupByMonthEnd ==
    out.op = "groupByMonthEnd" =>
      LET csv == probe.csv
          In == {i \in 1..Len(csv) : probe.ymd = 0 \/ csv[i].Date >= probe.ymd}
          months == {MonthOf(csv[i].Date) : i \in In}
          LastOf(m) == CHOOSE i \in In :
                         /\ MonthOf(csv[i].Date) = m
                         /\ \A j \in In : MonthOf(csv[j].Date) = m => j <= i
          res == out.res
      IN  /\ Len(res) = Cardinality(months)
          /\ {res[j].month : j \in 1..Len(res)} = months
          /\ \A j \in 1..Len(res) : res[j].close = parseFloat(csv[LastOf(res[j].month)].Close)

\* a month with two records on or after sinceDate and one before it
C9_Witness ==
    /\ out.op = "groupByMonthEnd"
    /\ probe.ymd # 0
    /\ \E i, j, k \in 1..Len(probe.csv) :
         /\ i < j /\ j < k
         /\ probe.csv[i].Date < probe.ymd /\ probe.csv[j].Date >= probe.ymd
         /\ MonthOf(probe.csv[j].Date) = MonthOf(probe.csv[k].Date)
         /\ probe.csv[j].Close # probe.csv[k].Close
    /\ Len(out.res) >= 1

-----------------------------------------------------------------------------
(* calculate on every small portfolio and provider answer *)

ValDates == {20200110, 20200210}
ValBbb   == <<[Date |-> 20200110, Close |-> "1"], [Date |-> 20200210, Close |-> "2"]>>

\* histories of AAA.US, a quote of AAA.US that is absent, "N/D" or a price, and an
\* EURUSD answer that is empty, "N/D", "0" or "2"
ValStooq ==
    {[hist |-> [s \in Symbols |-> IF s = "AAA.US" THEN h ELSE ValBbb],
      quote |-> q, eurusd |-> e] :
       h \in HistoriesOver(ValDates, Cells),
       q \in {[s \in {"BBB.US"} |-> "2"]} \cup
             {[s \in Symbols |-> IF s = "AAA.US" THEN c ELSE "2"] :
                c \in {"N/D", ToString(MaxClose)}},
       e \in {NullCell, "N/D", "0", "2"}}

ValRows ==
    LET first == {[id |-> 1, ticker |-> "aaa", amount |-> Num(1000), currency |-> c,
                   date |-> d] : c \in Currencies, d \in {20200105, 20200120, 20200301}}
        second == [id |-> 2, ticker |-> "bbb.us", amount |-> Num(1000),
                   currency |-> "USD", date |-> 20200110]
    IN  {<<r>> : r \in first} \cup {<<r, second>> : r \in first}

InitValuation ==
    /\ InitPage
    /\ rows \in ValRows
    /\ stooq \in ValStooq
    /\ probe = NoProbe
    /\ out = NoProbe
    /\ rendered = rows

NextValuation == CalcStart \/ CalcFetched \/ CalcFinish

SpecValuation == InitValuation /\ [][NextValuation]_vars

\* the cell of the live quote of a symbol, NullCell when the answer has no row
LiveCell(symbol) ==
    IF symbol \in DOMAIN stooq.quote THEN stooq.quote[symbol] ELSE NullCell

\* C2: no stored result has an unusable purchase or current price, nor a
\* non-finite share count or current value (such an attempt is to fail instead).
C2_InvalidPriceRejected ==
    \A i \in 1..Len(calc.results) :
      LET res == calc.results[i]
      IN  /\ IsFinite(res.purchaseClose) /\ ~IsZero(res.purchaseClose)
          /\ IsFinite(res.latestPrice) /\ ~IsZero(res.latestPrice)
          /\ IsFinite(res.shares)
          /\ IsFinite(res.currentValueUSD)

\* C7: a calculate call never ends with the error of an unobtainable quote or
\* exchange-rate answer.
C7_UnavailabilityNeverAborts ==
    /\ calcRun.err \notin {ErrQuote, ErrFx, ErrType}
    /\ error \notin {ErrQuote, ErrFx, ErrType}

\* C8: the current price of every stored result is the live quote close when that
\* is a finite number and otherwise the close of the last record of the asset's
\* full history, and the current value is shares times that price.
C8_CurrentPrice ==
    \A i \in 1..Len(calc.results) :
      LET res == calc.results[i]
          csv == CsvOf(res.symbol)
          live == LiveCell(res.symbol)
          price == IF live \in Digits THEN Numeral(live)
                   ELSE parseFloat(csv[Len(csv)].Close)
      IN  /\ res.latestPrice = price
          /\ res.currentValueUSD = Mul(res.shares, price)

\* no finite live quote, and the last record is not the purchase record
C8_Witness ==
    \E i \in 1..Len(calc.results) :
      LET res == calc.results[i]
          csv == CsvOf(res.symbol)
      IN  /\ LiveCell(res.symbol) \notin Digits
          /\ res.purchaseDateUsed # csv[Len(csv)].Date
          /\ IsFinite(res.latestPrice)
          /\ res.latestPrice # res.purchaseClose
          /\ IsFinite(res.currentValueUSD) /\ ~IsZero(res.currentValueUSD)

-----------------------------------------------------------------------------
(* computeMonthlyDrops on every small pair of histories *)

AggDatesAaa == {20220110, 20220210, 20220310}
AggDatesBbb == {20220215, 20220315}

AggStooq ==
    {[hist |-> [s \in Symbols |-> IF s = "AAA.US" THEN a ELSE b],
      quote |-> <<>>, eurusd |-> "2"] :
       a \in HistoriesOver(AggDatesAaa, Cells),
       b \in HistoriesOver(AggDatesBbb, {"0", "1"})}

AggRows ==
    LET first == [id |-> 1, ticker |-> "aaa", amount |-> Num(1000), currency |-> "USD",
                  date |-> 20220105]
        second == {[id |-> 2, ticker |-> "bbb.us", amount |-> Num(1000),
                    currency |-> "EUR", date |-> d] : d \in {20220105, 20220301}}
    IN  {<<first>>} \cup {<<first, r>> : r \in second}

InitAggregation ==
    /\ InitPage
    /\ rows \in AggRows
    /\ stooq \in AggStooq
    /\ probe = NoProbe
    /\ out = NoProbe
    /\ rendered = rows

NextAggregation == DropsStart \/ DropsFinish

SpecAggregation == InitAggregation /\ [][NextAggregation]_vars

\* the months in which the provider has a record of some asset
StooqMonths ==
    UNION {{MonthOf(stooq.hist[s][k].Date) : k \in 1..Len(stooq.hist[s])} :
             s \in DOMAIN stooq.hist}

\* the records of row r's asset on or after its purchase date that fall in month m
RecordsIn(r, m) ==
    LET csv == CsvOf(normalizeTicker(r.ticker))
    IN  {k \in 1..Len(csv) : csv[k].Date >= r.date /\ MonthOf(csv[k].Date) = m}

\* the month-end close of row r's asset in month m
MonthClose(r, m) ==
    LET csv == CsvOf(normalizeTicker(r.ticker))
        k == CHOOSE i \in RecordsIn(r, m) : \A j \in RecordsIn(r, m) : j <= i
    IN  parseFloat(csv[k].Close)

\* the sum of shares * close(m) over the positions in I
RECURSIVE SumOver(_, _)
SumOver(I, m) ==
    IF I = {} THEN Num(0)
    ELSE LET i == CHOOSE x \in I : TRUE
         IN  Add(Mul(dropsRun.perSymbol[i].shares, MonthClose(dropsRun.rows[i], m)),
                 SumOver(I \ {i}, m))

\* C10: after a successful computeMonthlyDrops the months of the portfolio series
\* are strictly ascending and drawn from the union of the positions' months; the
\* value of a point is the sum of shares_i * close_i(month) over exactly the
\* positions with a record in that month on or after their purchase date, and a
\* month of the union is in the series if and only if that sum is > 0.
C10_PortfolioSeries ==
    (dropsRun.pc = "idle" /\ dropsRun.err = "" /\ dropsRun.rows # <<>>) =>
      LET rs == dropsRun.rows
          I(m) == {i \in 1..Len(rs) : RecordsIn(rs[i], m) # {}}
          union == {m \in StooqMonths : I(m) # {}}
          S == monthlySeries
      IN  /\ \A i, j \in 1..Len(S) : i < j => S[i].month < S[j].month
          /\ \A i \in 1..Len(S) : S[i].month \in union
          /\ \A m \in union :
               /\ (\E k \in 1..Len(S) : S[k].month = m) <=> Gt(SumOver(I(m), m), Num(0))
               /\ \A k \in 1..Len(S) : S[k].month = m => S[k].valueUSD = SumOver(I(m), m)

\* two positions: a month with a record of the first only (the second was bought
\* later), a month with records of both, and a month whose sum is not > 0
C10_Witness ==
    /\ dropsRun.pc = "idle" /\ dropsRun.err = ""
    /\ Len(dropsRun.rows) = 2
    /\ Len(monthlySeries) = 2
    /\ MonthOf(dropsRun.rows[2].date) > monthlySeries[1].month
    /\ \E k \in 1..Len(CsvOf("BBB.US")) : CsvOf("BBB.US")[k].Date < dropsRun.rows[2].date
    /\ RecordsIn(dropsRun.rows[2], monthlySeries[1].month) = {}
    /\ RecordsIn(dropsRun.rows[1], monthlySeries[2].month) # {}
    /\ RecordsIn(dropsRun.rows[2], monthlySeries[2].month) # {}
    /\ IsFinite(monthlySeries[2].valueUSD)
    /\ \E m \in StooqMonths :
         /\ RecordsIn(dropsRun.rows[1], m) # {}
         /\ \A k \in 1..Len(monthlySeries) : monthlySeries[k].month # m

\* C11: in the monthly series the change of the first point is undefined, and the
\* change of every later point is undefined exactly when the value of the point
\* before it in the series is <= 0 and is value[i] / value[i-1] - 1 otherwise.
C11_MonthOverMonth ==
    \A i \in 1..Len(monthlySeries) :
      LET S == monthlySeries
      IN  IF i = 1 THEN IsNull(S[1].mom)
          ELSE /\ IsNull(S[i].mom) <=> Le(S[i - 1].valueUSD, Num(0))
               /\ ~IsNull(S[i].mom) =>
                    S[i].mom = Sub(Div(S[i].valueUSD, S[i - 1].valueUSD), Num(1))

\* a series of January and March whose February sum was dropped: the change of
\* March, a fall, is taken against January
C11_Witness ==
    /\ dropsRun.pc = "idle" /\ dropsRun.err = ""
    /\ Len(monthlySeries) = 2
    /\ monthlySeries[1].month = 202201 /\ monthlySeries[2].month = 202203
    /\ RecordsIn(dropsRun.rows[1], 202202) # {}
    /\ IsFinite(monthlySeries[2].mom) /\ Lt(monthlySeries[2].mom, Num(0))
    /\ monthlySeries[2].mom =
         Sub(Div(monthlySeries[2].valueUSD, monthlySeries[1].valueUSD), Num(1))

-----------------------------------------------------------------------------
(* computeMonthlyDrops under several thresholds, on every small history *)

DropDates == {20220110, 20220210, 20220310, 20220410}

DropStooq ==
    {[hist |-> [s \in {"AAA.US"} |-> h], quote |-> <<>>, eurusd |-> "2"] :
       h \in HistoriesOver(DropDates, Digits \ {"0"})}

\* what the user types in the threshold input; 0 and 200 are clamped to 1 and 100
DropInputs == {0, 50, 200}

InitDrops ==
    /\ InitPage
    /\ rows = <<[id |-> 1, ticker |-> "aaa", amount |-> Num(1000), currency |-> "USD",
                 date |-> 20220105]>>
    /\ stooq \in DropStooq
    /\ probe = NoProbe
    /\ out = NoProbe
    /\ rendered = rows

NextDrops ==
    \/ DropsStart
    \/ DropsFinish
    \/ \E value \in DropInputs : setDropThresholdPct(value)

SpecDrops == InitDrops /\ [][NextDrops]_vars

\* thresholds from 1 to 100 on both sides of the changes -1/3 and -1/2
DropThresholds == {1, 33, 34, 50, 51, 100}

\* the points of the series that are drops at threshold t
DropPoints(t) ==
    {i \in 1..Len(monthlySeries) :
       /\ ~IsNull(monthlySeries[i].mom)
       /\ Le(monthlySeries[i].mom, Div(Num(-t), Num(100)))}

\* C12: when computeMonthlyDrops has ended, the drop list holds exactly the points
\* of the monthly series whose change is defined and <= -t/100, t the threshold of
\* the call, in the order of the series; and for thresholds t1 <= t2 every drop of
\* the series at t2 is a drop at t1.
C12_DropList ==
    dropsRun.pc = "idle" =>
      LET pts == DropPoints(dropsRun.dropThresholdPct)
          at == [t \in DropThresholds |-> Drops(monthlySeries, t)]
      IN  /\ Len(bigDrops) = Cardinality(pts)
          /\ \A i \in pts : \E k \in 1..Len(bigDrops) : bigDrops[k] = monthlySeries[i]
          /\ \A k \in 1..Len(bigDrops) : \E i \in pts : bigDrops[k] = monthlySeries[i]
          /\ \A j, k \in 1..Len(bigDrops) : j < k => bigDrops[j].month < bigDrops[k].month
          /\ \A t1, t2 \in DropThresholds :
               t1 <= t2 =>
                 \A k \in 1..Len(at[t2]) : \E j \in 1..Len(at[t1]) : at[t1][j] = at[t2][k]

\* at threshold 50, a series of four points of which the second and the fourth
\* fall by exactly one half: both are drops, in that order, and the third is not
C12_Witness ==
    /\ dropsRun.pc = "idle" /\ dropsRun.err = "" /\ dropsRun.dropThresholdPct = 50
    /\ Len(monthlySeries) = 4
    /\ Len(bigDrops) = 2
    /\ bigDrops[1] = monthlySeries[2] /\ bigDrops[2] = monthlySeries[4]
    /\ bigDrops[1].mom = Div(Num(-1), Num(2))
    /\ Len(Drops(monthlySeries, 51)) = 0
    /\ Len(Drops(monthlySeries, 15)) = 2

-----------------------------------------------------------------------------
(* The analyses of the monthly series of one position, on every small history *)

\* one month before the 2021-11 .. 2022-10 window, four months in it, one after
CrisisDates == {20211029, 20211231, 20220831, 20220930, 20221031, 20221130}

CrisisStooq ==
    {[hist |-> [s \in {"AAA.US"} |-> h], quote |-> <<>>, eurusd |-> "2"] :
       h \in HistoriesOver(CrisisDates, Digits \ {"0"})}

InitCrisis ==
    /\ InitPage
    /\ rows = <<[id |-> 1, ticker |-> "aaa", amount |-> Num(1000), currency |-> "USD",
                 date |-> 20211001]>>
    /\ stooq \in CrisisStooq
    /\ probe = NoProbe
    /\ out = NoProbe
    /\ rendered = rows

NextCrisis == DropsStart \/ DropsFinish

SpecCrisis == InitCrisis /\ [][NextCrisis]_vars

\* the points of the series inside the window of an event
InWindow(ev) ==
    {i \in 1..Len(monthlySeries) :
       monthlySeries[i].month >= ev.startMonth /\ monthlySeries[i].month <= ev.endMonth}

\* the largest in-window value among the points up to and including point t
PeakAt(ev, t) ==
    LET upTo == {i \in InWindow(ev) : i <= t}
    IN  monthlySeries[CHOOSE i \in upTo :
                        \A j \in upTo : Ge(monthlySeries[i].valueUSD, monthlySeries[j].valueUSD)].valueUSD

\* C1: for every event with a drawdown, a defined recoveryMonth is the first point
\* of the full series strictly after the trough whose value is >= the running peak
\* that was in force when the trough was recorded.
C1_RecoveryAgainstPeakAtTrough ==
    \A e \in 1..Len(eventPerformances) :
      LET perf == eventPerformances[e]
          ev == MARKET_EVENTS[e]
          S == monthlySeries
          t == CHOOSE i \in 1..Len(S) : S[i].month = perf.troughMonth
      IN  (InWindow(ev) # {} /\ perf.recoveryMonth # NoMonth /\ Lt(perf.maxDrawdown, Num(0))) =>
            \E k \in 1..Len(S) :
              /\ k > t
              /\ S[k].month = perf.recoveryMonth
              /\ Ge(S[k].valueUSD, PeakAt(ev, t))
              /\ \A j \in (t + 1)..(k - 1) : ~Ge(S[j].valueUSD, PeakAt(ev, t))

-----------------------------------------------------------------------------
(* The page: both handlers, the checkbox and the threshold input *)

MainAaa == <<[Date |-> 20200110, Close |-> "2"], [Date |-> 20200131, Close |-> "3"],
             [Date |-> 20200228, Close |-> "2"], [Date |-> 20200331, Close |-> "1"],
             [Date |-> 20200430, Close |-> "3"]>>

MainStooq ==
    {[hist |-> [s \in Symbols |-> IF s = "AAA.US" THEN MainAaa ELSE ValBbb],
      quote |-> [s \in {"AAA.US"} |-> "3"], eurusd |-> e] :
       e \in {NullCell, "N/D", "0", "2"}}

\* one position, or two of which the second is another asset or a freshly added row
MainRows ==
    LET first == {[id |-> 1, ticker |-> "aaa", amount |-> Num(1000), currency |-> c,
                   date |-> 20200105] : c \in Currencies}
        other == [id |-> 2, ticker |-> "bbb.us", amount |-> Num(1000),
                  currency |-> "EUR", date |-> 20200115]
        fresh == [id |-> 2, ticker |-> "", amount |-> Num(1000),
                  currency |-> "EUR", date |-> 20150102]
    IN  {<<r>> : r \in first} \cup {<<r, other>> : r \in first}
          \cup {<<r, fresh>> : r \in first}

ThresholdInputs == {15, 40}

Init ==
    /\ InitPage
    /\ rows \in MainRows
    /\ stooq \in MainStooq
    /\ probe = NoProbe
    /\ out = NoProbe
    /\ rendered = rows

Next ==
    \/ CalcStart
    \/ CalcFetched
    \/ CalcFinish
    \/ DropsStart
    \/ DropsFinish
    \/ \E checked \in BOOLEAN : setUseEur(checked)
    \/ \E value \in ThresholdInputs : setDropThresholdPct(value)

Spec == Init /\ [][Next]_vars

\* a usable rate: a finite number other than zero
RateAvailable(rate) == IsFinite(rate) /\ ~IsZero(rate)

\* the amount in USD the claims expect of a row under a rate
ExpectedAmountUSD(r, rate) ==
    IF r.currency = "EUR" /\ RateAvailable(rate) THEN Mul(r.amount, rate) ELSE r.amount

\* a row that has all its fields and a record on or after its date
Priceable(r) ==
    /\ r.ticker # "" /\ IsFinite(r.amount) /\ ~IsZero(r.amount) /\ r.date # 0
    /\ \E k \in 1..Len(CsvOf(normalizeTicker(r.ticker))) :
         CsvOf(normalizeTicker(r.ticker))[k].Date >= r.date

\* the close of the first record on or after the date of a priceable row
PurchaseClose(r) ==
    LET csv == CsvOf(normalizeTicker(r.ticker))
        k == CHOOSE i \in 1..Len(csv) :
               csv[i].Date >= r.date /\ \A j \in 1..(i - 1) : csv[j].Date < r.date
    IN  parseFloat(csv[k].Close)

RequestErrors == {ErrQuote, ErrFx, ErrType, ErrHist}

C4_SameShares ==
    (/\ calcRun.pc = "idle" /\ dropsRun.pc = "idle"
     /\ calcRun.rows = dropsRun.rows
     /\ Len(calc.results) = Len(calcRun.rows)
     /\ Len(dropsRun.perSymbol) = Len(dropsRun.rows))
      => \A i \in 1..Len(calc.results) :
           calc.results[i].shares = dropsRun.perSymbol[i].shares

\* C3: a step in which a call ends in an error leaves the per-position results,
\* the monthly series and the drop list all empty.
C3_ErrorClearsResults ==
    [][((calcRun.pc # "idle" /\ calcRun'.pc = "idle"
           /\ calcRun'.err \in {ErrMissing, ErrNoDay, ErrHist})
        \/ (dropsRun.pc # "idle" /\ dropsRun'.pc = "idle"
           /\ dropsRun'.err \in {ErrMissing, ErrNoDay, ErrHist}))
       => (calc'.results = <<>> /\ monthlySeries' = <<>> /\ bigDrops' = <<>>)]_vars

\* C18: when calculate has ended with the missing-field error, no per-position
\* result is stored and the remembered FX rate is the one the page had when the
\* attempt started.
C18_MissingFieldFrame ==
    (calcRun.pc = "idle" /\ calcRun.err = ErrMissing) =>
      (calc.results = <<>> /\ fx = calcRun.fx)

\* the sum of the amounts of the rows in I, each under a rate
RECURSIVE SumAmounts(_, _, _)
SumAmounts(rs, I, rate) ==
    IF I = {} THEN Num(0)
    ELSE LET i == CHOOSE x \in I : \A y \in I : y <= x
         IN  Add(ExpectedAmountUSD(rs[i], rate), SumAmounts(rs, I \ {i}, rate))

\* C19: the positions and the provider's data do not change during a behaviour,
\* so a computeMonthlyDrops that succeeds while the series of an earlier success
\* is displayed produces that same series again.
C19_SameInputsSameSeries ==
    [][(/\ dropsRun.pc = "fetching" /\ dropsRun'.pc = "idle" /\ dropsRun'.err = ""
        /\ dropsRun.rows = rows
        /\ monthlySeries # <<>>)
       => monthlySeries' = monthlySeries]_vars

-----------------------------------------------------------------------------
(* The annual extremes and the crisis windows of the series of SpecCrisis *)

\* the points of the series that fall in a year
PointsOf(year) == {i \in 1..Len(monthlySeries) : YearOf(monthlySeries[i].month) = year}

\* C13: the annual extremes have exactly one entry for each year of the series, in
\* ascending order of year; minUSD <= every value of the year <= maxUSD, and
\* minMonth and maxMonth are months of that year whose values are minUSD and maxUSD.
C13_YearExtremes ==
    LET S == monthlySeries
        Y == yearExtremes
    IN  /\ {Y[n].year : n \in 1..Len(Y)} = {YearOf(S[i].month) : i \in 1..Len(S)}
        /\ \A m, n \in 1..Len(Y) : m < n => Y[m].year < Y[n].year
        /\ \A n \in 1..Len(Y) :
             /\ \A i \in PointsOf(Y[n].year) :
                  Le(Y[n].minUSD, S[i].valueUSD) /\ Le(S[i].valueUSD, Y[n].maxUSD)
             /\ \E i \in PointsOf(Y[n].year) :
                  S[i].month = Y[n].minMonth /\ S[i].valueUSD = Y[n].minUSD
             /\ \E i \in PointsOf(Y[n].year) :
                  S[i].month = Y[n].maxMonth /\ S[i].valueUSD = Y[n].maxUSD

\* a series over 2021 and 2022 whose 2022 minimum and maximum are neither its
\* first nor its last point
C13_Witness ==
    /\ Len(yearExtremes) = 2
    /\ yearExtremes[1].year = 2021 /\ yearExtremes[2].year = 2022
    /\ Cardinality(PointsOf(2021)) = 2 /\ Cardinality(PointsOf(2022)) = 4
    /\ yearExtremes[1].minMonth = 202112 /\ yearExtremes[1].maxMonth = 202110
    /\ yearExtremes[2].minMonth = 202209 /\ yearExtremes[2].maxMonth = 202210
    /\ Lt(yearExtremes[2].minUSD, yearExtremes[1].minUSD)

\* C14: minMonth is the earliest month of its year whose value is the year's
\* minimum and maxMonth the earliest whose value is the year's maximum.
C14_TiesKeepFirst ==
    LET S == monthlySeries
        Y == yearExtremes
    IN  \A n \in 1..Len(Y) :
          \A i \in PointsOf(Y[n].year) :
            /\ S[i].valueUSD = Y[n].minUSD => Y[n].minMonth <= S[i].month
            /\ S[i].valueUSD = Y[n].maxUSD => Y[n].maxMonth <= S[i].month

\* the four points of 2022 alternate between the year's minimum and its maximum:
\* the months recorded are the first two
C14_Witness ==
    /\ Cardinality(PointsOf(2022)) = 4
    /\ \E n \in 1..Len(yearExtremes) :
         LET y == yearExtremes[n]
             S == monthlySeries
         IN  /\ y.year = 2022
             /\ y.minMonth = 202208 /\ y.maxMonth = 202209
             /\ Lt(y.minUSD, y.maxUSD)
             /\ \E i \in PointsOf(2022) : S[i].month = 202210 /\ S[i].valueUSD = y.minUSD
             /\ \E i \in PointsOf(2022) : S[i].month = 202211 /\ S[i].valueUSD = y.maxUSD

\* the drawdown of in-window point i: its value against the largest in-window
\* value up to and including it
DrawdownAt(ev, i) == Sub(Div(monthlySeries[i].valueUSD, PeakAt(ev, i)), Num(1))

\* C15: for every event with points in its window, maxDrawdown is <= 0 and is the
\* least drawdown of an in-window point, and troughMonth is the month of the first
\* in-window point with that drawdown.
C15_MaxDrawdown ==
    \A e \in 1..Len(eventPerformances) :
      LET perf == eventPerformances[e]
          ev == MARKET_EVENTS[e]
          W == InWindow(ev)
      IN  W # {} =>
            /\ Le(perf.maxDrawdown, Num(0))
            /\ \A i \in W : Le(perf.maxDrawdown, DrawdownAt(ev, i))
            /\ \E i \in W :
                 /\ DrawdownAt(ev, i) = perf.maxDrawdown
                 /\ monthlySeries[i].month = perf.troughMonth
                 /\ \A j \in W : j < i => DrawdownAt(ev, j) # perf.maxDrawdown

\* the window holds a value lower than the value at the trough: the peak rose
\* after that lower value and the fall from it is the deepest
C15_Witness ==
    \E e \in 1..Len(eventPerformances) :
      LET perf == eventPerformances[e]
          ev == MARKET_EVENTS[e]
      IN  /\ InWindow(ev) # {}
          /\ Lt(perf.maxDrawdown, Num(0))
          /\ \E i, t \in InWindow(ev) :
               /\ monthlySeries[t].month = perf.troughMonth
               /\ Lt(monthlySeries[i].valueUSD, monthlySeries[t].valueUSD)

\* C16: an event with no point in its window has every performance field absent;
\* otherwise startValue and endValue are the values of the first and the last
\* in-window point and pctChange is (endValue - startValue) / startValue when
\* startValue > 0 and absent when not.
C16_EventValues ==
    \A e \in 1..Len(eventPerformances) :
      LET perf == eventPerformances[e]
          ev == MARKET_EVENTS[e]
          W == InWindow(ev)
          first == CHOOSE i \in W : \A j \in W : i <= j
          last == CHOOSE i \in W : \A j \in W : j <= i
          sv == monthlySeries[first].valueUSD
      IN  IF W = {}
          THEN /\ IsNull(perf.startValue) /\ IsNull(perf.endValue)
               /\ IsNull(perf.absChange) /\ IsNull(perf.pctChange)
               /\ IsNull(perf.maxDrawdown)
               /\ perf.troughMonth = NoMonth /\ perf.recoveryMonth = NoMonth
               /\ IsNull(perf.monthsToRecoveryFromStart)
               /\ IsNull(perf.monthsToRecoveryFromTrough)
          ELSE /\ perf.startValue = sv
               /\ perf.endValue = monthlySeries[last].valueUSD
               /\ perf.pctChange =
                    IF Gt(sv, Num(0))
                    THEN Div(Sub(monthlySeries[last].valueUSD, sv), sv) ELSE Null

\* a series that starts before the 2021-11 .. 2022-10 window and ends after it,
\* with a change over the window, while the 2020 window has no point
C16_Witness ==
    /\ Len(eventPerformances) = 4
    /\ IsNull(eventPerformances[3].startValue)
    /\ monthlySeries[1].month = 202110
    /\ monthlySeries[Len(monthlySeries)].month = 202211
    /\ eventPerformances[4].startValue # monthlySeries[1].valueUSD
    /\ eventPerformances[4].endValue # monthlySeries[Len(monthlySeries)].valueUSD
    /\ IsFinite(eventPerformances[4].pctChange)
    /\ Lt(eventPerformances[4].pctChange, Num(0))

\* C17: the two month counts are defined exactly when recoveryMonth is, and are
\* then (yearB - yearA) * 12 + (monthB - monthA) from startMonth, respectively
\* from troughMonth, to recoveryMonth.
C17_MonthsToRecovery ==
    \A e \in 1..Len(eventPerformances) :
      LET perf == eventPerformances[e]
          Months(a, b) == ((b \div 100) - (a \div 100)) * 12 + ((b % 100) - (a % 100))
      IN  IF perf.recoveryMonth = NoMonth
          THEN /\ IsNull(perf.monthsToRecoveryFromStart)
               /\ IsNull(perf.monthsToRecoveryFromTrough)
          ELSE /\ perf.monthsToRecoveryFromStart =
                    Num(Months(perf.startMonth, perf.recoveryMonth))
               /\ perf.monthsToRecoveryFromTrough =
                    Num(Months(perf.troughMonth, perf.recoveryMonth))

\* a trough in December 2021 recovered in 2022: the counts cross the year end
C17_Witness ==
    \E e \in 1..Len(eventPerformances) :
      LET perf == eventPerformances[e]
      IN  /\ perf.troughMonth = 202112
          /\ perf.recoveryMonth = 202209
          /\ perf.monthsToRecoveryFromStart = Num(10)
          /\ perf.monthsToRecoveryFromTrough = Num(9)

-----------------------------------------------------------------------------
(* The totals after the calculate of SpecValuation *)

\* C20: after a calculate that succeeded, investedUSD is the sum of the positions'
\* amounts in USD (an EUR amount times the rate when there is a usable one) and
\* investedOriginalEUR is the sum of the entered amounts of the EUR positions
\* alone, whatever the rate.
C20_InvestedTotals ==
    (calcRun.pc = "idle" /\ calcRun.err = "" /\ calcRun.rows # <<>>) =>
      LET rs == calcRun.rows
      IN  /\ totals.investedUSD =
               SumAmounts(rs, 1..Len(rs), parseFloat(stooq.eurusd))
          /\ totals.investedOriginalEUR =
               SumAmounts(rs, {i \in 1..Len(rs) : rs[i].currency = "EUR"}, Null)

\* an EUR and a USD position of 1000 each at the rate 2: 3000 invested in USD,
\* 1000 in EUR
C20_Witness ==
    /\ calcRun.pc = "idle" /\ calcRun.err = ""
    /\ Len(calc.results) = 2
    /\ calc.results[1].currency = "EUR" /\ calc.results[2].currency = "USD"
    /\ stooq.eurusd = "2"
    /\ totals.investedUSD = Num(3000)
    /\ totals.investedOriginalEUR = Num(1000)
    /\ totals.investedOriginalUSD = Num(1000)

-----------------------------------------------------------------------------
(* The list of positions: addRow, removeRow, handleChange and the renders *)

\* useState<Row[]>([...]): the three rows the page is constructed with
InitialRows ==
    <<[id |-> 1, ticker |-> "NVDA", amount |-> Num(1000), currency |-> "EUR",
       date |-> 20000105],
      [id |-> 2, ticker |-> "MSFT", amount |-> Num(1000), currency |-> "EUR",
       date |-> 20000105],
      [id |-> 3, ticker |-> "GOOGL", amount |-> Num(1000), currency |-> "EUR",
       date |-> 20040819]>>

InitRows ==
    /\ InitPage
    /\ rows = InitialRows
    /\ stooq = NoStooq
    /\ probe = NoProbe
    /\ out = NoProbe
    /\ rendered = rows

\* the remove button and the currency select of a row belong to a rendered row
NextRows ==
    \/ addRow
    \/ \E i \in 1..Len(rendered) : removeRow(rendered[i].id)
    \/ \E i \in 1..Len(rendered), c \in Currencies : handleChange(rendered[i].id, "currency", c)
    \/ Render

SpecRows == InitRows /\ [][NextRows]_vars

\* C21: the positions of the list have pairwise distinct ids.
C21_UniqueIds ==
    \A i, j \in 1..Len(rows) : i # j => rows[i].id # rows[j].id

-----------------------------------------------------------------------------
(* The page when every request that was issued is answered: the continuation of *)
(* a call after an await runs once the awaited promises have settled            *)

\* the positions: one of either currency, or two of which the second is a
\* freshly added row without ticker
LiveRows ==
    LET first == {[id |-> 1, ticker |-> "aaa", amount |-> Num(1000), currency |-> c,
                   date |-> 20200105] : c \in Currencies}
        fresh == [id |-> 2, ticker |-> "", amount |-> Num(1000),
                  currency |-> "EUR", date |-> 20150102]
    IN  {<<r>> : r \in first} \cup {<<r, fresh>> : r \in first}

\* a history of two month-ends, a quote and a rate
LiveStooq ==
    [hist |-> [s \in {"AAA.US"} |-> ValBbb], quote |-> [s \in {"AAA.US"} |-> "3"],
     eurusd |-> "2"]

InitLive ==
    /\ InitPage
    /\ rows \in LiveRows
    /\ stooq = LiveStooq
    /\ probe = NoProbe
    /\ out = NoProbe
    /\ rendered = rows

NextLive == CalcStart \/ CalcFetched \/ CalcFinish \/ DropsStart \/ DropsFinish

SpecLive ==
    /\ InitLive
    /\ [][NextLive]_vars
    /\ WF_vars(CalcFetched)
    /\ WF_vars(CalcFinish)
    /\ WF_vars(DropsFinish)

\* C22: a calculate that has set calc.loading eventually clears it, and a
\* computeMonthlyDrops that has set dropsLoading eventually clears it, whether the
\* call ends in its catch block or not.
C22_LoadingEnds ==
    /\ calc.loading ~> ~calc.loading
    /\ dropsLoading ~> ~dropsLoading

\* both calls have ended, calculate on a row without ticker and
\* computeMonthlyDrops on a failed history request, and neither flag is set
C22_Witness ==
    /\ calcRun.pc = "idle" /\ calcRun.err = ErrMissing
    /\ dropsRun.pc = "idle" /\ dropsRun.err = ErrHist
    /\ ~calc.loading /\ ~dropsLoading

-----------------------------------------------------------------------------
(* The stored series and the stored drop list *)

\* the points of a series whose change is defined and at most -t/100
AtMost(series, t) ==
    Filter(series, [i \in 1..Len(series) |->
                       /\ ~IsNull(series[i].mom)
                       /\ Le(series[i].mom, Div(Num(0 - t), Num(100)))])

\* C23: monthlySeries and bigDrops change only in the step that ends a
\* computeMonthlyDrops, both in that one step; after it bigDrops is the sub-list
\* of monthlySeries of the points whose change is at most -T/100, T being the
\* threshold the call captured when it started, and both are empty when the call
\* failed. Both lists are empty initially, so the relation holds in every state.
C23_DropsOfStoredSeries ==
    [][IF dropsRun.pc = "fetching" /\ dropsRun'.pc = "idle"
       THEN /\ bigDrops' = AtMost(monthlySeries', dropsRun.dropThresholdPct)
            /\ dropsRun'.err # "" => monthlySeries' = <<>> /\ bigDrops' = <<>>
       ELSE UNCHANGED <<monthlySeries, bigDrops>>]_vars

\* a call has ended well after the threshold was changed: the stored drops are
\* those of the threshold of its start, not those of the threshold now displayed
C23_Witness ==
    /\ dropsRun.pc = "idle" /\ dropsRun.err = "" /\ ~dropsLoading
    /\ dropsRun.dropThresholdPct # dropThresholdPct
    /\ bigDrops # <<>>
    /\ bigDrops = AtMost(monthlySeries, dropsRun.dropThresholdPct)
    /\ bigDrops # AtMost(monthlySeries, dropThresholdPct)

-----------------------------------------------------------------------------
(* Paging through the drop list *)

\* two years of month-end records whose closes repeat 3, 2, 1: two months in
\* three fall, by a third and then by a half, 16 and 8 of the 23 changes
PagingHistory ==
    [i \in 1..24 |->
        [Date |-> (2020 + ((i - 1) \div 12)) * 10000 + (((i - 1) % 12) + 1) * 100 + 28,
         Close |-> ToString(3 - ((i - 1) % 3))]]

InitPaging ==
    /\ InitPage
    /\ rows = <<[id |-> 1, ticker |-> "aaa", amount |-> Num(1000), currency |-> "USD",
                 date |-> 20200105]>>
    /\ stooq = [hist |-> [s \in {"AAA.US"} |-> PagingHistory], quote |-> <<>>,
                eurusd |-> "2"]
    /\ probe = NoProbe
    /\ out = NoProbe
    /\ rendered = rows

NextPaging ==
    \/ DropsStart
    \/ DropsFinish
    \/ \E value \in ThresholdInputs : setDropThresholdPct(value)
    \/ \E n \in PageSizes : setPageSize(n)
    \/ setShowAll
    \/ Anterior
    \/ Seguinte

SpecPaging == InitPaging /\ [][NextPaging]_vars

\* C24: the page is always between 1 and the number of pages of the stored drop
\* list at the page size in force, and every step in which the drop list or the
\* threshold changes leaves page at 1 and showAll off.
C24_PageInRange ==
    /\ [](1 <= page /\ page <= totalPages)
    /\ [][(bigDrops' # bigDrops \/ dropThresholdPct' # dropThresholdPct)
            => page' = 1 /\ showAll' = FALSE]_vars

\* the second of two pages, reached with Seguinte after the page size was changed
C24_Witness ==
    /\ bigDrops # <<>> /\ pageSize # 20 /\ ~showAll
    /\ totalPages = 2 /\ page = totalPages

====
